---- MODULE Spec2Model ----
(***************************************************************************)
(* TreeGen (gen.py): a forest of random trees grown over shared layers of  *)
(* grid points, then exported as text.                                     *)
(*                                                                         *)
(* Coordinates x and z are integers or integers plus one half (get_layer   *)
(* shifts even-sized layers by (0.5, 0.5)).  They are held in HALF UNITS:  *)
(* the model value is twice the program value, so 0.5 is 1 and 3 is 6.     *)
(* IDs, depths and the y coordinate are plain integers.                    *)
(***************************************************************************)
EXTENDS Integers, Sequences, FiniteSets

\* ---- bounds of the model ------------------------------------------------
MaxLayers == 3
MaxChild == 3
MaxRandNodes == 14
MaxDetNodes == 45
MaxPicks == 2
MaxExports == 2
MaxSize == 3
\* ---- program constant: "NUM_TREES should not be larger than 9" -----------
MaxNumTrees == 9

VARIABLES
  NUM_TREES, NUM_LAYERS, MIN_CHILD, MAX_CHILD,  \* the module's parameters
  pc,           \* "main", "build", "crashed" (an uncaught IndexError), "pure"
  start_nodes,  \* generate_layers()[0]
  layers,       \* generate_layers()[1]: the shared layers, drained in place
  trees,        \* Question.trees: the rows of every finished Tree
  tree,         \* Tree.tree of the Tree under construction
  ct,           \* Tree.ct of the Tree under construction
  num_layers,   \* Tree.num_layers
  stack,        \* the active invocations of Tree.generate, innermost last
  exports,      \* how often Question.__str__ has run
  out,          \* the text Question.__str__ returned last
  size, grid    \* argument and result of the last direct get_layer call

vars == <<NUM_TREES, NUM_LAYERS, MIN_CHILD, MAX_CHILD, pc, start_nodes, layers,
          trees, tree, ct, num_layers, stack, exports, out, size, grid>>

\* ---- arithmetic helpers -------------------------------------------------
\* n, an integer of the program, in half units
H(n) == 2 * n

RECURSIVE Pow(_, _)
\* Python's b ** e for e >= 0
Pow(b, e) == IF e = 0 THEN 1 ELSE b * Pow(b, e - 1)

\* Python's divmod(i, 3) for i >= 0, in half units
divmod3(i) == <<H(i \div 3), H(i % 3)>>

\* ---- layers ---------------------------------------------------------------
translate_layer(layer, translation) ==
  [j \in 1..Len(layer) |->
     <<layer[j][1] + translation[1], layer[j][2] + translation[2]>>]

\* [(k, m) for k in range(n) for m in range(n)]
square(n) == [j \in 1..(n * n) |-> <<H((j - 1) \div n), H((j - 1) % n)>>]

get_layer(s) ==
  LET layer0 == square(s * 2 + 3)
      layer1 == translate_layer(layer0, <<H(-(s + 1)), H(-(s + 1))>>)
  IN  IF s % 2 = 0 THEN translate_layer(layer1, <<1, 1>>) ELSE layer1

\* a faulty variant: the number of trees is left out of the demand
required_no_trees(trees_n, max_child, d) == Pow(max_child, d + 1)

\* NUM_TREES * MAX_CHILD ** (len(nodes) + 1), d = len(nodes)
required(trees_n, max_child, d) == trees_n * Pow(max_child, d + 1)

\* a faulty variant: `if` for `while`, the layer is grown at most once
grow_once(c, need) == IF Len(get_layer(c)) < need THEN c + 1 ELSE c

RECURSIVE grow(_, _)
\* the inner while loop of generate_layers: the value of ct after it
grow(c, need) == IF Len(get_layer(c)) < need THEN grow(c + 1, need) ELSE c

RECURSIVE layers_loop(_, _, _, _, _)
\* the outer while loop of generate_layers
layers_loop(nodes, c, trees_n, layers_n, max_child) ==
  IF Len(nodes) < layers_n
  THEN LET c2 == grow(c, required(trees_n, max_child, Len(nodes)))
       IN  layers_loop(Append(nodes, get_layer(c2)), c2, trees_n, layers_n, max_child)
  ELSE nodes

generate_layers(trees_n, layers_n, max_child) ==
  <<[j \in 1..trees_n |-> divmod3(j - 1)],
    layers_loop(<<>>, 1, trees_n, layers_n, max_child)>>

\* ---- one Tree ---------------------------------------------------------------
\* Tree.add_node: the rows and the counter after it, and the ID it returns
add_node(t, c, node, parent, layer) ==
  [tree |-> Append(t, <<c, node[1], -layer, node[2], parent>>),
   ct |-> c + 1,
   id |-> (c + 1) - 1]

\* a faulty variant: the recursion stops one layer early
stop_early(layer, nl) == layer + 1 >= nl

\* `if layer >= self.num_layers: return`
at_max_depth(layer, nl) == layer >= nl

\* a faulty variant: the upper end of the range is one too high
randint_wide(lo, hi) == lo..(hi + 1)

\* the values random.randint(lo, hi) can return
randint(lo, hi) == lo..hi

\* the positions random.choice can return, of which the model follows the
\* first and the last for the first MaxPicks draws of a run (drawn counts the
\* draws made so far) and the first from then on
choice(seq, drawn) ==
  {j \in 1..Len(seq) : j = 1 \/ (j = Len(seq) /\ drawn < MaxPicks)}

\* the position of the first element of seq equal to v
index(seq, v) == CHOOSE j \in 1..Len(seq) : seq[j] = v /\ \A k \in 1..(j - 1) : seq[k] # v

\* a faulty variant: the drawn point stays in the layer
remove_nothing(seq, v) == seq

\* list.remove(v): seq without its first element equal to v
remove(seq, v) ==
  LET p == index(seq, v)
  IN  [j \in 1..(Len(seq) - 1) |-> IF j < p THEN seq[j] ELSE seq[j + 1]]

\* the caller's loop variable moves on once the call it made has returned
resume(stk) ==
  IF stk = <<>> THEN stk
  ELSE [stk EXCEPT ![Len(stk)] = [@ EXCEPT !.i = @ + 1]]

\* Tree.generate(node, layers, parent, layer) up to its loop, called with the
\* rows t, the counter c and num_layers nl, from the invocations stk: add the
\* node, return at the maximum depth, else choose the number of children
generate(t, c, stk, nl, node, parent, layer) ==
  LET a == add_node(t, c, node, parent, layer)
  IN  /\ tree' = a.tree
      /\ ct' = a.ct
      /\ IF at_max_depth(layer, nl)
         THEN stack' = resume(stk)
         ELSE \E rand \in randint(MIN_CHILD, MAX_CHILD) :
                stack' = Append(stk, [parent |-> a.id, layer |-> layer,
                                      rand |-> rand, i |-> 0])

Top == stack[Len(stack)]
\* ---- the export -------------------------------------------------------------
\* a faulty variant: the parent field is not translated
translate_id_only(t, num) ==
  [r \in 1..Len(t) |-> <<t[r][1] + num, t[r][2], t[r][3], t[r][4], t[r][5]>>]

\* Tree.translate
translate(t, num) ==
  [r \in 1..Len(t) |-> <<t[r][1] + num, t[r][2], t[r][3], t[r][4], t[r][5] + num>>]

\* Tree.num_nodes
num_nodes(t) == Len(t)

RECURSIVE translate_by_one(_, _, _)
\* a faulty variant: the offset grows by one per tree, not by the tree's node count
translate_by_one(ts, k, c) ==
  IF k > Len(ts) THEN ts
  ELSE translate_by_one([ts EXCEPT ![k] = translate(@, c)], k + 1, c + 1)

RECURSIVE translate_trees(_, _, _)
\* the first loop of Question.__str__, from tree k on with the offset c
translate_trees(ts, k, c) ==
  IF k > Len(ts) THEN ts
  ELSE translate_trees([ts EXCEPT ![k] = translate(@, c)], k + 1, c + num_nodes(ts[k]))

\* Tree.__str__: one line per row, the depth coordinate lowered by one
Tree__str__(t) ==
  [r \in 1..Len(t) |-> <<t[r][1], t[r][2], t[r][3] - 1, t[r][4], t[r][5]>>]

RECURSIVE join(_, _)
\* the second loop of Question.__str__: the lines of the trees from k on
join(ts, k) == IF k > Len(ts) THEN <<>> ELSE Tree__str__(ts[k]) \o join(ts, k + 1)

\* a faulty variant: every row below the root counts as a leaf
any_node(t, nl) == {t[r] : r \in {q \in 1..Len(t) : t[q][3] # 0}}

\* Tree.get_random_leaf: the rows random.choice chooses from
get_random_leaf(t, nl) == {t[r] : r \in {q \in 1..Len(t) : t[q][3] = -nl}}

NoOut == [leaf |-> -1, header |-> "", lines |-> <<>>]

\* ---- configurations -----------------------------------------------------------
RECURSIVE FullTree(_, _)
\* the nodes of a tree in which every node has m children down to depth l
FullTree(m, l) == IF l = 0 THEN 1 ELSE 1 + m * FullTree(m, l - 1)

\* the parameter values the forest is built for: forests of bounded size,
\* larger ones where the number of children is fixed
Configs ==
  {c \in (1..MaxNumTrees) \X (1..MaxLayers) \X (1..MaxChild) \X (1..MaxChild) :
     /\ c[3] <= c[4]
     /\ c[1] * FullTree(c[4], c[2])
          <= (IF c[3] = c[4] THEN MaxDetNodes ELSE MaxRandNodes)}

\* the parameter values generate_layers is applied to on its own
LayerConfigs ==
  {c \in (1..MaxNumTrees) \X (1..MaxLayers) \X (1..MaxChild) \X (1..MaxChild) :
     c[3] <= c[4]}

Idle ==
  /\ start_nodes = <<>> /\ layers = <<>> /\ trees = <<>> /\ tree = <<>>
  /\ ct = 0 /\ num_layers = 0 /\ stack = <<>> /\ exports = 0
  /\ out = NoOut /\ size = -1 /\ grid = <<>>

Init ==
  /\ \E c \in Configs :
       NUM_TREES = c[1] /\ NUM_LAYERS = c[2] /\ MIN_CHILD = c[3] /\ MAX_CHILD = c[4]
  /\ pc = "main"
  /\ Idle

\* ---- the program ------------------------------------------------------------
\* main(), guarded by `if NUM_TREES <= 9`: the layers are generated
Main ==
  /\ pc = "main"
  /\ NUM_TREES <= MaxNumTrees
  /\ LET g == generate_layers(NUM_TREES, NUM_LAYERS, MAX_CHILD)
     IN  start_nodes' = g[1] /\ layers' = g[2]
  /\ pc' = "build"
  /\ UNCHANGED <<NUM_TREES, NUM_LAYERS, MIN_CHILD, MAX_CHILD, trees, tree, ct,
                 num_layers, stack, exports, out, size, grid>>

\* Question.__init__, one iteration: Tree(start_node, layers) up to the loop of
\* the root's generate call
NewTree ==
  /\ pc = "build"
  /\ stack = <<>>
  /\ Len(trees) < Len(start_nodes)
  /\ num_layers' = Len(layers)
  /\ generate(<<>>, 0, <<>>, Len(layers), start_nodes[Len(trees) + 1], 0, 0)
  /\ trees' = IF stack' = <<>> THEN Append(trees, tree') ELSE trees
  /\ UNCHANGED <<NUM_TREES, NUM_LAYERS, MIN_CHILD, MAX_CHILD, pc, start_nodes,
                 layers, exports, out, size, grid>>

RECURSIVE Total(_, _)
\* the number of rows of the trees ts from k on
Total(ts, k) == IF k > Len(ts) THEN 0 ELSE Len(ts[k]) + Total(ts, k + 1)

\* the draws made so far: every node but the roots was drawn
Drawn == Total(trees, 1) - Len(trees) + (IF stack = <<>> THEN 0 ELSE ct - 1)

\* one iteration of the loop of Tree.generate: a point is drawn from the layer
\* and removed, and generate is called for it; random.choice raises IndexError
\* on an empty layer
DrawChild ==
  /\ pc = "build"
  /\ stack # <<>>
  /\ Top.i < Top.rand
  /\ IF layers[Top.layer + 1] = <<>>
     THEN /\ pc' = "crashed"
          /\ UNCHANGED <<layers, tree, ct, stack, trees>>
     ELSE \E j \in choice(layers[Top.layer + 1], Drawn) :
            LET new_node == layers[Top.layer + 1][j]
            IN  /\ layers' = [layers EXCEPT ![Top.layer + 1] = remove(@, new_node)]
                /\ generate(tree, ct, stack, num_layers, new_node, Top.parent, Top.layer + 1)
                /\ UNCHANGED <<pc, trees>>
  /\ UNCHANGED <<NUM_TREES, NUM_LAYERS, MIN_CHILD, MAX_CHILD, start_nodes,
                 num_layers, exports, out, size, grid>>

\* the loop of a generate call is over: it returns to its caller, and the
\* root's call returns to Question.__init__, which appends the tree
Return ==
  /\ pc = "build"
  /\ stack # <<>>
  /\ Top.i = Top.rand
  /\ stack' = resume(SubSeq(stack, 1, Len(stack) - 1))
  /\ trees' = IF stack' = <<>> THEN Append(trees, tree) ELSE trees
  /\ UNCHANGED <<NUM_TREES, NUM_LAYERS, MIN_CHILD, MAX_CHILD, pc, start_nodes,
                 layers, tree, ct, num_layers, exports, out, size, grid>>

Built == pc = "build" /\ stack = <<>> /\ Len(trees) = Len(start_nodes)

\* Question.__str__ (Question.export writes its result): the trees are
\* translated in place, a leaf of a random tree is chosen, the text is built;
\* random.choice raises IndexError when the tree has no leaf
Export ==
  /\ Built
  /\ exports < MaxExports
  /\ trees' = translate_trees(trees, 1, 0)
  /\ \E k \in 1..Len(trees) :
       LET leaves == get_random_leaf(trees'[k], num_layers)
       IN  IF leaves = {}
           THEN pc' = "crashed" /\ UNCHANGED <<out, exports>>
           ELSE \E random_leaf \in leaves :
                  /\ out' = [leaf |-> random_leaf[1],
                             header |-> "ID,x,y,z,parent",
                             lines |-> join(trees', 1)]
                  /\ exports' = exports + 1
                  /\ pc' = pc
  /\ UNCHANGED <<NUM_TREES, NUM_LAYERS, MIN_CHILD, MAX_CHILD, start_nodes,
                 layers, tree, ct, num_layers, stack, size, grid>>

Next == Main \/ NewTree \/ DrawChild \/ Return \/ Export

Spec == Init /\ [][Next]_vars

\* ---- the layer functions on their own ------------------------------------------
InitLayers ==
  /\ \E c \in LayerConfigs :
       NUM_TREES = c[1] /\ NUM_LAYERS = c[2] /\ MIN_CHILD = c[3] /\ MAX_CHILD = c[4]
  /\ pc = "pure"
  /\ Idle

\* get_layer(s) is called
CallGetLayer ==
  /\ pc = "pure"
  /\ \E s \in 0..MaxSize : size' = s /\ grid' = get_layer(s)
  /\ UNCHANGED <<NUM_TREES, NUM_LAYERS, MIN_CHILD, MAX_CHILD, pc, start_nodes,
                 layers, trees, tree, ct, num_layers, stack, exports, out>>

\* generate_layers() is called
CallGenerateLayers ==
  /\ pc = "pure"
  /\ layers = <<>>
  /\ LET g == generate_layers(NUM_TREES, NUM_LAYERS, MAX_CHILD)
     IN  start_nodes' = g[1] /\ layers' = g[2]
  /\ UNCHANGED <<NUM_TREES, NUM_LAYERS, MIN_CHILD, MAX_CHILD, pc, trees, tree,
                 ct, num_layers, stack, exports, out, size, grid>>

NextLayers == CallGetLayer \/ CallGenerateLayers

SpecLayers == InitLayers /\ [][NextLayers]_vars
\* ---- properties ---------------------------------------------------------------
\* the trees built so far, the one under construction last
Forest == IF stack = <<>> THEN trees ELSE Append(trees, tree)

\* the positions <<tree, row>> of the nodes of a sequence of trees
Nodes(ts) == UNION {{<<k, r>> : r \in 1..Len(ts[k])} : k \in 1..Len(ts)}

\* the depth of a row: its third field is -layer
Depth(row) == -row[3]

\* C1: generate_layers returns exactly NUM_LAYERS layers, and the layer at index
\* d (from 0) holds at least NUM_TREES * MAX_CHILD^(d+1) points.
C1_LayersLargeEnough ==
  layers # <<>> =>
    /\ Len(layers) = NUM_LAYERS
    /\ \A d \in 0..(NUM_LAYERS - 1) :
         Len(layers[d + 1]) >= NUM_TREES * Pow(MAX_CHILD, d + 1)

\* generate_layers has returned layers the search had to grow beyond get_layer(1)
C1_Witness ==
  /\ pc = "pure"
  /\ NUM_TREES = MaxNumTrees /\ NUM_LAYERS >= 2 /\ MAX_CHILD >= 2
  /\ Len(layers) = NUM_LAYERS
  /\ Len(layers[NUM_LAYERS]) > 25

\* C2: whenever Tree.generate is about to draw a point, the layer it draws from
\* is not empty.
C2_NeverDrawFromEmpty ==
  (pc = "build" /\ stack # <<>> /\ Top.i < Top.rand) => layers[Top.layer + 1] # <<>>

\* a draw is due from a layer that earlier draws have taken down to two points
C2_Witness ==
  /\ pc = "build" /\ stack # <<>> /\ Top.i < Top.rand
  /\ Len(layers[Top.layer + 1]) = 2

\* C3: after the export has translated the IDs, no two nodes of the forest have
\* the same ID.
C3_UniqueIds ==
  exports >= 1 =>
    \A i, j \in 1..Len(out.lines) : i # j => out.lines[i][1] # out.lines[j][1]

\* an export of at least two trees, the second one translated
C3_Witness ==
  /\ exports >= 1 /\ Len(trees) >= 2
  /\ trees[2][1][1] > 0
  /\ Len(out.lines) = Len(trees[1]) + Len(trees[2])

\* C4: in the exported forest the parent field of every node below the root is
\* the ID of a node of the same tree, one level up, which is in the output.
C4_ParentLinks ==
  exports >= 1 =>
    LET written == {out.lines[j] : j \in 1..Len(out.lines)}
    IN  \A n \in Nodes(trees) :
          LET t == trees[n[1]]
              row == t[n[2]]
          IN  Depth(row) # 0 =>
                \E q \in 1..Len(t) :
                  /\ t[q][1] = row[5]
                  /\ Depth(t[q]) = Depth(row) - 1
                  /\ Tree__str__(t)[q] \in written

\* an export in which a node of the second tree has a parent below the root
C4_Witness ==
  /\ exports >= 1 /\ Len(trees) >= 2
  /\ \E r \in 1..Len(trees[2]) :
       Depth(trees[2][r]) = 2 /\ trees[2][r][5] > trees[2][1][1]

\* C5: at every depth, the roots included, no two nodes of the forest have the
\* same (x, z) point: there are as many distinct points as nodes.
C5_DistinctPoints ==
  \A d \in 0..NUM_LAYERS :
    LET at == {n \in Nodes(Forest) : Depth(Forest[n[1]][n[2]]) = d}
    IN  Cardinality({<<Forest[n[1]][n[2]][2], Forest[n[1]][n[2]][4]>> : n \in at})
          = Cardinality(at)

\* a finished forest with nodes of two trees at one depth below the roots, the
\* first of them drawn from the end of the layer
C5_Witness ==
  /\ Built /\ Len(trees) >= 2
  /\ LET first == generate_layers(NUM_TREES, NUM_LAYERS, MAX_CHILD)[2][1]
     IN  <<trees[1][2][2], trees[1][2][4]>> = first[Len(first)]
  /\ \E r \in 1..Len(trees[1]), q \in 1..Len(trees[2]) :
       Depth(trees[1][r]) = 1 /\ Depth(trees[2][q]) = 1

\* the rows of t that are children of the row at position r
Children(t, r) == {q \in 1..Len(t) : t[q][5] = t[r][1] /\ t[q][1] # t[r][1]}

\* C6: in every finished tree, every node without children has depth NUM_LAYERS
\* and no node is deeper than NUM_LAYERS.
C6_LeavesAtMaxDepth ==
  \A n \in Nodes(trees) :
    LET t == trees[n[1]]
    IN  /\ Depth(t[n[2]]) <= NUM_LAYERS
        /\ Children(t, n[2]) = {} => Depth(t[n[2]]) = NUM_LAYERS

\* a finished tree of two layers with inner nodes of one and of several children
C6_Witness ==
  /\ NUM_LAYERS = 2 /\ Len(trees) >= 1
  /\ \E r, q \in 1..Len(trees[1]) :
       /\ Cardinality(Children(trees[1], r)) = 1
       /\ Cardinality(Children(trees[1], q)) >= 2

\* an export step: Question.__str__ has run once more
ExportStep == exports' = exports + 1

\* C7: the export leaves the rows of every tree as they are, and a second
\* export returns the same record lines as the one before.
C7_ExportIdempotent ==
  [][ExportStep => /\ trees' = trees
                   /\ exports >= 1 => out'.lines = out.lines]_vars

\* the configuration of the scenario: 2 trees, 2 layers, 1 to 2 children
Scenario == NUM_TREES = 2 /\ NUM_LAYERS = 2 /\ MIN_CHILD = 1 /\ MAX_CHILD = 2

\* C8, as stated: in the scenario every tree has between 2 and 6 nodes.
C8_Original ==
  Scenario => \A k \in 1..Len(trees) : Len(trees[k]) >= 2 /\ Len(trees[k]) <= 6

\* C8, amended: in the scenario every tree has between 3 and 7 nodes.
C8_ThreeToSeven ==
  Scenario => \A k \in 1..Len(trees) : Len(trees[k]) >= 3 /\ Len(trees[k]) <= 7

\* the scenario's forest with the largest tree and the smallest
C8_Witness ==
  /\ Scenario /\ Built
  /\ Len(trees[1]) = 7 /\ Len(trees[2]) = 3

\* C9: the first line of the export is the ID of a record of the same export
\* whose depth is NUM_LAYERS, and every finished tree has such a node, so that
\* the choice of the leaf does not fail.
C9_MarkerIsLeaf ==
  /\ pc # "crashed"
  /\ \A k \in 1..Len(trees) : \E r \in 1..Len(trees[k]) : Depth(trees[k][r]) = NUM_LAYERS
  /\ exports >= 1 =>
       \E j \in 1..Len(out.lines) :
         out.lines[j][1] = out.leaf /\ out.lines[j][3] = -NUM_LAYERS - 1

\* an export whose marker is a leaf of the second tree, in trees with inner nodes
C9_Witness ==
  /\ exports >= 1 /\ Len(trees) >= 2 /\ NUM_LAYERS >= 2
  /\ out.leaf > trees[2][1][1]

\* the points of the square from (lo, lo) to (hi, hi), in half units
Square(lo, hi) == {<<H(x), H(z)>> : x \in lo..hi, z \in lo..hi}

\* C10: get_layer(size) returns every integer point of the grid of side
\* 3 + 2*size that reaches size units beyond (0,0)-(2,2) on every side; for
\* size 1 that is the 5x5 grid from (-1,-1), with (-1,-1), (2,2) and (3,1).
C10_GridAroundStart ==
  size >= 0 =>
    /\ Len(grid) = (3 + 2 * size) * (3 + 2 * size)
    /\ {grid[j] : j \in 1..Len(grid)} = Square(-size, 2 + size)
    /\ size = 1 => {<<H(-1), H(-1)>>, <<H(2), H(2)>>, <<H(3), H(1)>>}
                     \subseteq {grid[j] : j \in 1..Len(grid)}
====
